---- MODULE Spec2Model ----
(***************************************************************************)
(* SJJP Requests Portal (app.py v3.6): the JSON-file requests store, the   *)
(* login helper and the Submit Request / Manage Requests handlers.         *)
(*                                                                         *)
(* Encoding of JSON values.  A JSON object is a function from its keys to  *)
(* values, so that a missing key is a key outside DOMAIN.  A JSON string   *)
(* is a string; a JSON number stored where the code expects a string is    *)
(* the string "#" followed by its digits ("#7" is the number 7), and       *)
(* Python's None is "#None".  Request ids are naturals: uuid4() returns    *)
(* the next unused value of the counter nextId.                            *)
(***************************************************************************)
EXTENDS Integers, Sequences, FiniteSets, TLC

VARIABLES
    users,      \* data/users.json
    coaches,    \* data/coaches.json
    requests,   \* data/requests.json
    nextId,     \* source of uuid4() values
    user,       \* st.session_state["user"], per session
    cart,       \* st.session_state["pending_request"], per session
    visible,    \* rows shown by the last Manage Requests render, per session
    rows,       \* array a session loaded and has not written back yet
    pc,         \* position of a session inside a load-then-rewrite action
    last        \* record of the last operation performed (history)

vars == <<users, coaches, requests, nextId, user, cart, visible, rows, pc, last>>

----------------------------------------------------------------------------
(* Bounds *)

MaxIds == 2         \* uuid4() values handed out to cart items
MaxEdited == 1      \* rows of the edited grid handed to a Manage Requests button
MaxDirectory == 2   \* records in users.json and in coaches.json
MaxLegacy == 2      \* records of a requests.json written by hand

----------------------------------------------------------------------------
(* Python helpers *)

PyNone == "#None"

\* dict.get(k, default)
Get(d, k, default) == IF k \in DOMAIN d THEN d[k] ELSE default

\* str(v) on an encoded JSON value
Str(v) ==
    CASE v = "#7" -> "7"
      [] v = "#1724" -> "1724"
      [] v = PyNone -> "None"
      [] OTHER -> v

\* d with d[k] = v (key added when missing)
Put(d, k, v) == IF k \in DOMAIN d THEN [d EXCEPT ![k] = v] ELSE d @@ (k :> v)

IdsOf(s) == {s[i]["id"] : i \in {j \in DOMAIN s : "id" \in DOMAIN s[j]}}

----------------------------------------------------------------------------
(* Storage *)

\* a save_json that keeps the records of the old content whose id the new
\* array lacks
SaveJson_Merge(old, data) ==
    data \o SelectSeq(old, LAMBDA r : "id" \in DOMAIN r /\ r["id"] \notin IdsOf(data))

\* save_json: the file's old content is replaced by data
SaveJson(old, data) == data

\* load_json: the parsed array
LoadJson(file) == file

----------------------------------------------------------------------------
(* Authentication *)

NoUser == [none |-> TRUE]

UserMatches(u, ps_number, password) ==
    /\ Get(u, "ps_number", PyNone) = ps_number
    /\ Get(u, "password", PyNone) = password

\* a fallback that accepts any password
CoachMatches_AnyPassword(c, ps_number, password) ==
    Get(c, "ps_number", PyNone) = ps_number

CoachMatches(c, ps_number, password) ==
    /\ Get(c, "ps_number", PyNone) = ps_number
    /\ password = ps_number

\* the first of the positions hits of a list, 0 when there is none
First(hits) ==
    IF hits = {} THEN 0 ELSE CHOOSE i \in hits : \A j \in hits : i <= j

authenticate(us, cs, ps_number, password) ==
    LET ui == First({i \in DOMAIN us : UserMatches(us[i], ps_number, password)})
        ci == First({i \in DOMAIN cs : CoachMatches(cs[i], ps_number, password)})
    IN  IF ui # 0
        THEN [ps_number |-> us[ui]["ps_number"],
              credential |-> Get(us[ui], "credential", "Coach"),
              name |-> Get(us[ui], "name", us[ui]["ps_number"])]
        ELSE IF ci # 0
        THEN [ps_number |-> cs[ci]["ps_number"],
              credential |-> "Coach",
              name |-> Get(cs[ci], "name", cs[ci]["ps_number"])]
        ELSE NoUser

----------------------------------------------------------------------------
(* Reference data: data/schools.json and data/materials.json *)

Schools ==
    << [id |-> "S1", nome |-> "Dojo", city |-> "AD", coaches |-> {"PS1"}] >>

Materials ==
    << [category |-> "Gi", subcategory |-> "Kids", item |-> "A1"] >>

list_user_schools(u, schools) ==
    IF u["credential"] = "Admin" THEN schools
    ELSE SelectSeq(schools, LAMBDA s : u["ps_number"] \in Get(s, "coaches", {}))

materials_by_category(materials, category) ==
    SelectSeq(materials, LAMBDA m : Get(m, "category", PyNone) = category)

----------------------------------------------------------------------------
(* Backfill on load *)

\* one iteration of the loop of ensure_request_id_and_defaults; n is the
\* next uuid4() value
EnsureRow(r, n) ==
    LET r1 == IF "id" \notin DOMAIN r THEN Put(r, "id", n) ELSE r
        r2 == IF "status" \notin DOMAIN r1 THEN Put(r1, "status", "Pending") ELSE r1
        r3 == IF "ps_number" \notin DOMAIN r2 THEN Put(r2, "ps_number", "unknown") ELSE r2
    IN  Put(r3, "ps_number", Str(Get(r3, "ps_number", "unknown")))

RowChanged(r) ==
    \/ "id" \notin DOMAIN r
    \/ "status" \notin DOMAIN r
    \/ "ps_number" \notin DOMAIN r

\* the loop of ensure_request_id_and_defaults over rs, n being the next
\* uuid4() value: the rows after the loop
RECURSIVE EnsureRows(_, _)
EnsureRows(rs, n) ==
    IF rs = <<>> THEN <<>>
    ELSE <<EnsureRow(Head(rs), n)>>
         \o EnsureRows(Tail(rs), IF "id" \notin DOMAIN Head(rs) THEN n + 1 ELSE n)

\* number of uuid4() calls the loop makes
IdsUsed(rs) == Cardinality({j \in DOMAIN rs : "id" \notin DOMAIN rs[j]})

\* ensure_request_id_and_defaults: the returned rows, the file afterwards and
\* the next unused uuid4() value
ensure_request_id_and_defaults(file, rs, n) ==
    LET out == EnsureRows(rs, n)
        changed == \E i \in DOMAIN rs : RowChanged(rs[i])
    IN  [rows |-> out,
         file |-> IF changed THEN SaveJson(file, out) ELSE file,
         next |-> n + IdsUsed(rs)]

\* Manage Requests visibility filter
Visible(rs, u) ==
    SelectSeq(rs, LAMBDA r : Get(r, "ps_number", PyNone) = u["ps_number"])

----------------------------------------------------------------------------
(* Submit Request *)

\* a cart item staged as already approved
CartItem_Approved(n, school_id, category, material, qty, now, u) ==
    [id |-> n, school_id |-> school_id, category |-> category,
     material |-> material, quantity |-> qty, date |-> now,
     ps_number |-> Str(u["ps_number"]), status |-> "Approved"]

\* the dict appended to the cart by Add Another Item
CartItem(n, school_id, category, material, qty, now, u) ==
    [id |-> n, school_id |-> school_id, category |-> category,
     material |-> material, quantity |-> qty, date |-> now,
     ps_number |-> Str(u["ps_number"]), status |-> "Pending"]

\* "id" not in item or not item["id"]
LacksId(item) == "id" \notin DOMAIN item \/ item["id"] = 0

\* number of uuid4() calls the Submit loop makes
CartIdsUsed(pending) == Cardinality({j \in DOMAIN pending : LacksId(pending[j])})

\* a Submit loop that gives every item a new id
SubmitItem_NewId(item, n, u) ==
    LET i1 == Put(item, "id", n)
        i2 == Put(i1, "ps_number", Str(u["ps_number"]))
        st == Get(i2, "status", "Pending")
    IN  Put(i2, "status", IF st = "" THEN "Pending" ELSE st)

\* one iteration of the Submit loop
SubmitItem(item, n, u) ==
    LET i1 == IF LacksId(item) THEN Put(item, "id", n) ELSE item
        i2 == Put(i1, "ps_number", Str(u["ps_number"]))
        st == Get(i2, "status", "Pending")
    IN  Put(i2, "status", IF st = "" THEN "Pending" ELSE st)

\* a Submit that stamps the submitting user on the loaded rows as well
SubmitResult_StampAll(all_requests, pending, n, u) ==
    [i \in DOMAIN all_requests |-> Put(all_requests[i], "ps_number", Str(u["ps_number"]))]
    \o [i \in DOMAIN pending |-> SubmitItem(pending[i], n, u)]

\* the array Submit Request writes: the loaded array with the items appended
RECURSIVE SubmitResult(_, _, _, _)
SubmitResult(all_requests, pending, n, u) ==
    IF pending = <<>> THEN all_requests
    ELSE SubmitResult(Append(all_requests, SubmitItem(Head(pending), n, u)),
                      Tail(pending),
                      IF LacksId(Head(pending)) THEN n + 1 ELSE n, u)

----------------------------------------------------------------------------
(* Manage Requests: Delete Selected Items and Save Changes *)

\* ids of the edited rows marked Delete with a non-empty id (id 0 is the
\* empty id of a row added in the grid)
ToDeleteIds(edited) ==
    {edited[i]["id"] : i \in {j \in DOMAIN edited :
                                 Get(edited[j], "Delete", FALSE) /\ edited[j]["id"] # 0}}

\* a permission check without the owner test
MayTouch_AnyOwner(r, u) == Get(r, "status", PyNone) = "Pending"

MayTouch(r, u) ==
    /\ Get(r, "ps_number", PyNone) = u["ps_number"]
    /\ Get(r, "status", PyNone) = "Pending"

\* a deletion that ignores which rows were selected
DeleteResult_AllOwn(rs, to_delete_ids, u) ==
    SelectSeq(rs, LAMBDA r : ~MayTouch(r, u))

\* the array Delete Selected Items writes
DeleteResult(rs, to_delete_ids, u) ==
    SelectSeq(rs, LAMBDA r : ~(r["id"] \in to_delete_ids /\ MayTouch(r, u)))

AllowedFields == {"school_id", "category", "material", "quantity", "status", "date"}

\* the numbers of S in increasing order
RECURSIVE Ascending(_)
Ascending(S) ==
    IF S = {} THEN <<>>
    ELSE LET m == CHOOSE x \in S : \A y \in S : x <= y
         IN  <<m>> \o Ascending(S \ {m})

\* by_id = {r["id"]: r for r in rows} as the list of its values: one entry
\* per id, at the position of the id's first row, holding the id's last row
ById(rs) ==
    LET firsts == {i \in DOMAIN rs : \A j \in 1..(i - 1) : rs[j]["id"] # rs[i]["id"]}
        LastOf(i) == CHOOSE j \in DOMAIN rs :
                        /\ rs[j]["id"] = rs[i]["id"]
                        /\ \A k \in DOMAIN rs : rs[k]["id"] = rs[i]["id"] => k <= j
        RECURSIVE Pick(_)
        Pick(s) == IF s = <<>> THEN <<>> ELSE <<rs[LastOf(Head(s))]>> \o Pick(Tail(s))
    IN  Pick(Ascending(firsts))

\* the assignment loop over the allowed fields not yet handled
RECURSIVE ApplyFields(_, _, _)
ApplyFields(original, er, fields) ==
    IF fields = {} THEN original
    ELSE LET k == CHOOSE x \in fields : TRUE
         IN  ApplyFields(IF k \in DOMAIN er THEN Put(original, k, er[k]) ELSE original,
                         er, fields \ {k})

\* one iteration of the "Apply edits" loop on by_id
ApplyEdit(by_id, er, to_delete_ids, u) ==
    LET rid == er["id"]
        at == First({i \in DOMAIN by_id : by_id[i]["id"] = rid})
    IN  IF rid = 0 \/ at = 0 THEN by_id
        ELSE IF rid \in to_delete_ids THEN by_id
        ELSE IF ~MayTouch(by_id[at], u) THEN by_id
        ELSE [by_id EXCEPT ![at] = ApplyFields(by_id[at], er, AllowedFields)]

RECURSIVE ApplyEdits(_, _, _, _)
ApplyEdits(by_id, edited, to_delete_ids, u) ==
    IF edited = <<>> THEN by_id
    ELSE ApplyEdits(ApplyEdit(by_id, Head(edited), to_delete_ids, u),
                    Tail(edited), to_delete_ids, u)

\* the array Save Changes writes.  The ids marked for deletion are never
\* edited, so the rows read by the deletable loop are the loaded rows.
SaveResult(rs, edited, u) ==
    LET to_delete_ids == ToDeleteIds(edited)
        merged == ApplyEdits(ById(rs), edited, to_delete_ids, u)
        deletable == {rs[i]["id"] : i \in {j \in DOMAIN rs :
                          rs[j]["id"] \in to_delete_ids /\ MayTouch(rs[j], u)}}
    IN  SelectSeq(merged, LAMBDA r : r["id"] \notin deletable)

----------------------------------------------------------------------------
(* Sessions, inputs and the initial state *)

Sessions == {"s1", "s2"}

\* users.json as seeded by ensure_json, and a coaches directory
SeededUsers ==
    << [ps_number |-> "PS1724", password |-> "PS1724",
        credential |-> "Admin", name |-> "Administrator"] >>

CoachDirectory ==
    << [ps_number |-> "PS1", name |-> "Coach One"] >>

Quantities == {1}
Now == "2025-11-07 10:00:00"

\* the label of the "Subcategory + Item" select box
MaterialLabel(m) == <<Get(m, "subcategory", ""), Get(m, "item", "")>>

\* values a user can type into the editable cells of one grid row
EditValues ==
    { [school_id |-> "S1", category |-> "Gi", material |-> <<"Kids", "A1">>,
       quantity |-> 3, status |-> "Approved", date |-> Now] }

\* values of the cells of a row that is only marked Delete
KeptValues ==
    [school_id |-> "S1", category |-> "Gi", material |-> <<"Kids", "A1">>,
     quantity |-> 1, status |-> "Pending", date |-> Now]

\* ids an edited row can carry; MaxIds + 1 is an id no request has
EditIds == 1..(MaxIds + 1)

EditedRow(id, del, v) ==
    [Delete |-> del, id |-> id, school_id |-> v["school_id"],
     category |-> v["category"], material |-> v["material"],
     quantity |-> v["quantity"], status |-> v["status"], date |-> v["date"]]

\* what a user can do to one row of the grid
CellChoices ==
    {[Delete |-> TRUE, v |-> KeptValues]}
    \cup {[Delete |-> FALSE, v |-> v] : v \in EditValues}

\* a grid: at most MaxEdited rows with distinct ids, in increasing id order,
\* each either marked Delete or edited (the handlers' results do not depend
\* on the order of rows with distinct ids)
RECURSIVE GridOf(_, _)
GridOf(ids, cells) ==
    IF ids = {} THEN <<>>
    ELSE LET m == CHOOSE x \in ids : \A y \in ids : x <= y
         IN  <<EditedRow(m, cells[m].Delete, cells[m].v)>> \o GridOf(ids \ {m}, cells)

EditedInputs ==
    UNION { {GridOf(ids, cells) : cells \in [ids -> CellChoices]} :
            ids \in {S \in SUBSET EditIds : Cardinality(S) <= MaxEdited} }

MarkedInputs ==
    {g \in EditedInputs : \A i \in DOMAIN g : g[i]["Delete"]}

\* history: how the Delete marks of a pressed grid relate to the loaded rows.
\* "none": nothing is marked; "denied": a marked id is the id of a row that is
\* not the actor's or not Pending; "absent": every row of the grid is marked
\* and no loaded row has a marked id; "other": anything else.
GridKind(edited, rs, u) ==
    LET ids == ToDeleteIds(edited)
        hit == {i \in DOMAIN rs : rs[i]["id"] \in ids}
    IN  IF ids = {} THEN "none"
        ELSE IF \E i \in hit : ~MayTouch(rs[i], u) THEN "denied"
        ELSE IF hit = {} /\ \A i \in DOMAIN edited : edited[i]["Delete"] THEN "absent"
        ELSE "other"

Did(op, s, kind) == [op |-> op, s |-> s, kind |-> kind]

\* both sessions have signed in: require_login has stored what authenticate
\* returned for the seeded administrator and for a coach of the directory
SignedIn ==
    [s \in Sessions |->
        IF s = "s1" THEN authenticate(SeededUsers, CoachDirectory, "PS1724", "PS1724")
        ELSE authenticate(SeededUsers, CoachDirectory, "PS1", "PS1")]

Init ==
    /\ users = SeededUsers
    /\ coaches = CoachDirectory
    /\ requests = <<>>
    /\ nextId = 1
    /\ user = SignedIn
    /\ cart = [s \in Sessions |-> <<>>]
    /\ visible = [s \in Sessions |-> <<>>]
    /\ rows = [s \in Sessions |-> <<>>]
    /\ pc = [s \in Sessions |-> "idle"]
    /\ last = Did("none", "none", "none")

----------------------------------------------------------------------------
(* Handlers, each run to completion *)

\* Add Another Item
AddItem(s, qty) ==
    /\ user[s] # NoUser
    /\ nextId <= MaxIds
    /\ LET schools == list_user_schools(user[s], Schools)
       IN  \E i \in DOMAIN schools :
           \E category \in {Get(Materials[k], "category", "") : k \in DOMAIN Materials} :
             LET filtered == materials_by_category(Materials, category)
             IN  \E j \in DOMAIN filtered :
                   cart' = [cart EXCEPT ![s] = Append(@,
                              CartItem(nextId, Get(schools[i], "id", ""), category,
                                       MaterialLabel(filtered[j]), qty, Now, user[s]))]
    /\ nextId' = nextId + 1
    /\ last' = Did("AddItem", s, "none")
    /\ UNCHANGED <<users, coaches, requests, user, visible, rows, pc>>

\* Submit Request
Submit(s) ==
    /\ user[s] # NoUser
    /\ cart[s] # <<>>
    /\ requests' = SaveJson(requests,
                      SubmitResult(LoadJson(requests), cart[s], nextId, user[s]))
    /\ nextId' = nextId + CartIdsUsed(cart[s])
    /\ cart' = [cart EXCEPT ![s] = <<>>]
    /\ last' = Did("Submit", s, "none")
    /\ UNCHANGED <<users, coaches, user, visible, rows, pc>>

\* Manage Requests: load, backfill and render.  With keep the returned rows
\* stay in rows[s], for the runs whose steps are looked at one by one.
Render(s, keep) ==
    /\ user[s] # NoUser
    /\ LET e == ensure_request_id_and_defaults(requests, LoadJson(requests), nextId)
       IN  /\ requests' = e.file
           /\ nextId' = e.next
           /\ visible' = [visible EXCEPT ![s] = Visible(e.rows, user[s])]
           /\ rows' = IF keep THEN [rows EXCEPT ![s] = e.rows] ELSE rows
    /\ last' = Did("ManageLoad", s, "none")
    /\ UNCHANGED <<users, coaches, user, cart, pc>>

ManageLoad(s) == Render(s, FALSE)

\* Delete Selected Items, pressed on the grid of the last render; the run
\* ends with the render of st.rerun()
DeleteSelected(s) ==
    /\ user[s] # NoUser
    /\ visible[s] # <<>>
    /\ LET e == ensure_request_id_and_defaults(requests, LoadJson(requests), nextId)
           shown == Visible(e.rows, user[s])
       IN  \E edited \in MarkedInputs :
             LET ids == ToDeleteIds(edited)
                 wrote == shown # <<>> /\ ids # {}
                 out == IF wrote THEN SaveJson(e.file, DeleteResult(e.rows, ids, user[s]))
                        ELSE e.file
             IN  /\ requests' = out
                 /\ nextId' = e.next
                 /\ visible' = [visible EXCEPT ![s] =
                                   IF wrote THEN Visible(out, user[s]) ELSE shown]
                 /\ last' = Did("DeleteSelected", s,
                                IF shown = <<>> THEN "none"
                                ELSE GridKind(edited, e.rows, user[s]))
    /\ UNCHANGED <<users, coaches, user, cart, rows, pc>>

\* Save Changes, pressed on the grid of the last render; the run ends with
\* the render of st.rerun()
SaveChanges(s) ==
    /\ user[s] # NoUser
    /\ visible[s] # <<>>
    /\ LET e == ensure_request_id_and_defaults(requests, LoadJson(requests), nextId)
           shown == Visible(e.rows, user[s])
       IN  \E edited \in EditedInputs :
             LET wrote == shown # <<>>
                 out == IF wrote THEN SaveJson(e.file, SaveResult(e.rows, edited, user[s]))
                        ELSE e.file
             IN  /\ requests' = out
                 /\ nextId' = e.next
                 /\ visible' = [visible EXCEPT ![s] =
                                   IF wrote THEN Visible(out, user[s]) ELSE shown]
                 /\ last' = Did("SaveChanges", s,
                                IF shown = <<>> THEN "none"
                                ELSE GridKind(edited, e.rows, user[s]))
    /\ UNCHANGED <<users, coaches, user, cart, rows, pc>>

Next ==
    \/ \E s \in Sessions, qty \in Quantities : AddItem(s, qty)
    \/ \E s \in Sessions : Submit(s)
    \/ \E s \in Sessions : ManageLoad(s)
    \/ \E s \in Sessions : DeleteSelected(s)
    \/ \E s \in Sessions : SaveChanges(s)

Spec == Init /\ [][Next]_vars

----------------------------------------------------------------------------
(* The same handlers as two steps, the load and the rewrite, so that the
   runs of two sessions interleave *)

\* the grids of the interleaved runs: one row touched per press
OneRowInputs == {g \in EditedInputs : Len(g) <= 1}

\* history: the rewrite drops a persisted record its session never loaded
Drops(file, loaded) ==
    IF IdsOf(file) \ IdsOf(loaded) # {} THEN "lost" ELSE "none"

\* Submit Request up to and including load_json
BeginSubmit(s) ==
    /\ pc[s] = "idle"
    /\ user[s] # NoUser
    /\ cart[s] # <<>>
    /\ rows' = [rows EXCEPT ![s] = LoadJson(requests)]
    /\ pc' = [pc EXCEPT ![s] = "submit"]
    /\ last' = Did("BeginSubmit", s, "none")
    /\ UNCHANGED <<users, coaches, requests, nextId, user, cart, visible>>

\* Submit Request from the loop to the end
EndSubmit(s) ==
    /\ pc[s] = "submit"
    /\ requests' = SaveJson(requests, SubmitResult(rows[s], cart[s], nextId, user[s]))
    /\ nextId' = nextId + CartIdsUsed(cart[s])
    /\ cart' = [cart EXCEPT ![s] = <<>>]
    /\ rows' = [rows EXCEPT ![s] = <<>>]
    /\ pc' = [pc EXCEPT ![s] = "idle"]
    /\ last' = Did("EndSubmit", s, Drops(requests, rows[s]))
    /\ UNCHANGED <<users, coaches, user, visible>>

\* the run of a Manage Requests button press up to and including the load
\* and the backfill; the button was on the grid of the last render
BeginPress(s) ==
    /\ pc[s] = "idle"
    /\ user[s] # NoUser
    /\ visible[s] # <<>>
    /\ LET e == ensure_request_id_and_defaults(requests, LoadJson(requests), nextId)
       IN  /\ requests' = e.file
           /\ nextId' = e.next
           /\ rows' = [rows EXCEPT ![s] = e.rows]
    /\ pc' = [pc EXCEPT ![s] = "pressed"]
    /\ last' = Did("BeginPress", s, "none")
    /\ UNCHANGED <<users, coaches, user, cart, visible>>

\* Delete Selected Items from the collection of the marks to the end
EndDelete(s) ==
    /\ pc[s] = "pressed"
    /\ LET shown == Visible(rows[s], user[s])
       IN  \E edited \in OneRowInputs \cap MarkedInputs :
             LET ids == ToDeleteIds(edited)
                 wrote == shown # <<>> /\ ids # {}
                 out == IF wrote THEN SaveJson(requests, DeleteResult(rows[s], ids, user[s]))
                        ELSE requests
             IN  /\ requests' = out
                 /\ visible' = [visible EXCEPT ![s] =
                                   IF wrote THEN Visible(out, user[s]) ELSE shown]
                 /\ last' = Did(IF wrote THEN "EndDelete" ELSE "EndRender", s,
                                IF wrote THEN Drops(requests, rows[s]) ELSE "none")
    /\ rows' = [rows EXCEPT ![s] = <<>>]
    /\ pc' = [pc EXCEPT ![s] = "idle"]
    /\ UNCHANGED <<users, coaches, nextId, user, cart>>

\* Save Changes from the merge to the end
EndSave(s) ==
    /\ pc[s] = "pressed"
    /\ LET shown == Visible(rows[s], user[s])
       IN  \E edited \in OneRowInputs :
             LET wrote == shown # <<>>
                 out == IF wrote THEN SaveJson(requests, SaveResult(rows[s], edited, user[s]))
                        ELSE requests
             IN  /\ requests' = out
                 /\ visible' = [visible EXCEPT ![s] =
                                   IF wrote THEN Visible(out, user[s]) ELSE shown]
                 /\ last' = Did(IF wrote THEN "EndSave" ELSE "EndRender", s,
                                IF wrote THEN Drops(requests, rows[s]) ELSE "none")
    /\ rows' = [rows EXCEPT ![s] = <<>>]
    /\ pc' = [pc EXCEPT ![s] = "idle"]
    /\ UNCHANGED <<users, coaches, nextId, user, cart>>

NextRace ==
    \/ \E s \in Sessions, qty \in Quantities : pc[s] = "idle" /\ AddItem(s, qty)
    \/ \E s \in Sessions : pc[s] = "idle" /\ ManageLoad(s)
    \/ \E s \in Sessions : BeginSubmit(s)
    \/ \E s \in Sessions : EndSubmit(s)
    \/ \E s \in Sessions : BeginPress(s)
    \/ \E s \in Sessions : EndDelete(s)
    \/ \E s \in Sessions : EndSave(s)

SpecRace == Init /\ [][NextRace]_vars

----------------------------------------------------------------------------
(* Signing in, over the contents the two directories can have *)

UserRecords ==
    { [ps_number |-> "PS1724", password |-> "PS1724",
       credential |-> "Admin", name |-> "Administrator"],
      [ps_number |-> "PS1", password |-> "PS1", credential |-> "Admin"],
      [ps_number |-> "PS1", password |-> "pw1"] }

CoachRecords ==
    { [ps_number |-> "PS1", name |-> "Coach One"], [ps_number |-> "PS2"] }

LoginIds == {"PS1724", "PS1", "PS2", "PS9999"}
Passwords == {"PS1724", "PS1", "PS2", "pw1"}

SeqsUpTo(S, n) == UNION {[1..k -> S] : k \in 0..n}

InitAuth ==
    /\ users \in SeqsUpTo(UserRecords, MaxDirectory)
    /\ coaches \in SeqsUpTo(CoachRecords, MaxDirectory)
    /\ requests = <<>>
    /\ nextId = 1
    /\ user = [s \in Sessions |-> NoUser]
    /\ cart = [s \in Sessions |-> <<>>]
    /\ visible = [s \in Sessions |-> <<>>]
    /\ rows = [s \in Sessions |-> <<>>]
    /\ pc = [s \in Sessions |-> "idle"]
    /\ last = Did("none", "none", "none")

\* require_login: Sign In pressed by a session that has no user yet
Login(s, ps, pw) ==
    /\ user[s] = NoUser
    /\ LET u == authenticate(LoadJson(users), LoadJson(coaches), ps, pw)
       IN  user' = IF u # NoUser THEN [user EXCEPT ![s] = u] ELSE user
    /\ last' = [op |-> "Login", s |-> s, kind |-> "none", ps |-> ps, pw |-> pw]
    /\ UNCHANGED <<users, coaches, requests, nextId, cart, visible, rows, pc>>

NextAuth == \E s \in Sessions, ps \in LoginIds, pw \in Passwords : Login(s, ps, pw)

SpecAuth == InitAuth /\ [][NextAuth]_vars

----------------------------------------------------------------------------
(* Loading a requests.json that was written by hand *)

LegacyBase ==
    [school_id |-> "S1", category |-> "Gi", material |-> <<"Kids", "A1">>,
     quantity |-> 1, date |-> Now]

\* a record with or without each of id, status and ps_number; "#7" is a
\* ps_number stored as the JSON number 7
LegacyRecords ==
    { LET a == IF id = 0 THEN LegacyBase ELSE Put(LegacyBase, "id", id)
          b == IF st = "" THEN a ELSE Put(a, "status", st)
      IN  IF ps = "" THEN b ELSE Put(b, "ps_number", ps) :
      id \in {0, 101, 102}, st \in {"", "Approved"}, ps \in {"", "PS1", "#7"} }

LegacyFiles ==
    {f \in SeqsUpTo(LegacyRecords, MaxLegacy) :
        \A i \in DOMAIN f, j \in DOMAIN f :
           (i # j /\ "id" \in DOMAIN f[i] /\ "id" \in DOMAIN f[j])
              => f[i]["id"] # f[j]["id"]}

InitBackfill ==
    /\ users = SeededUsers
    /\ coaches = CoachDirectory
    /\ requests \in LegacyFiles
    /\ nextId = 1
    /\ user = SignedIn
    /\ cart = [s \in Sessions |-> <<>>]
    /\ visible = [s \in Sessions |-> <<>>]
    /\ rows = [s \in Sessions |-> <<>>]
    /\ pc = [s \in Sessions |-> "idle"]
    /\ last = Did("none", "none", "none")

LoadAndBackfill(s) == Render(s, TRUE)

NextBackfill == \E s \in Sessions : LoadAndBackfill(s)

SpecBackfill == InitBackfill /\ [][NextBackfill]_vars

----------------------------------------------------------------------------
(* Properties of the handlers *)

IsManageWrite(l) == l.op \in {"SaveChanges", "DeleteSelected"}

Owns(r, u) == Get(r, "ps_number", PyNone) = u["ps_number"]

\* C1: after a Manage Requests render, a Coach sees exactly the persisted
\* requests whose ps_number is the Coach's id and an Admin sees the whole
\* persisted collection.
C1_VisibleByRole ==
    [][last'.op = "ManageLoad" =>
         LET u == user[last'.s]
         IN  visible'[last'.s] =
               IF u["credential"] = "Admin" THEN requests'
               ELSE SelectSeq(requests', LAMBDA r : Owns(r, u))]_vars

\* C2: every record a step adds to the persisted collection has status
\* Pending and an id no other persisted record has, and the ids of the
\* persisted records stay pairwise distinct.
C2_NewPendingUnique ==
    [][/\ \A j \in DOMAIN requests' :
            requests'[j]["id"] \notin IdsOf(requests) =>
               /\ requests'[j]["status"] = "Pending"
               /\ \A k \in DOMAIN requests' :
                     k # j => requests'[k]["id"] # requests'[j]["id"]
       /\ last'.op = "Submit" =>
            \A j \in DOMAIN requests', k \in DOMAIN requests' :
               j # k => requests'[j]["id"] # requests'[k]["id"]]_vars

C2_Witness ==
    /\ last.op = "Submit"
    /\ Len(requests) >= 2
    /\ \E i \in DOMAIN requests : requests[i]["ps_number"] # user[last.s]["ps_number"]

\* C3: a Save Changes or Delete Selected Items by a non-admin leaves every
\* persisted request that is not the actor's, or not Pending, in the
\* collection with all its fields.
C3_CoachFrame ==
    [][(IsManageWrite(last') /\ user[last'.s]["credential"] # "Admin") =>
         \A i \in DOMAIN requests :
            (~Owns(requests[i], user[last'.s]) \/ requests[i]["status"] # "Pending")
               => \E j \in DOMAIN requests' : requests'[j] = requests[i]]_vars

C3_Witness ==
    /\ IsManageWrite(last)
    /\ user[last.s]["credential"] # "Admin"
    /\ last.kind = "denied"
    /\ \E i \in DOMAIN requests : ~Owns(requests[i], user[last.s])
    /\ \E i \in DOMAIN requests :
          Owns(requests[i], user[last.s]) /\ requests[i]["status"] # "Pending"

\* C4: a Delete mark an Admin submits on a request that is not Pending, or
\* is another user's, removes that request from the persisted collection.
C4_AdminDeletesAny ==
    [][(IsManageWrite(last') /\ user[last'.s]["credential"] = "Admin"
          /\ last'.kind = "denied")
         => Len(requests') < Len(requests)]_vars

\* C7: a Delete Selected Items or Save Changes whose Delete marks all name
\* ids no persisted request has leaves the persisted collection as it was.
C7_DeleteAbsentNoOp ==
    [][(IsManageWrite(last') /\ last'.kind = "absent") => requests' = requests]_vars

C7_Witness ==
    /\ IsManageWrite(last)
    /\ last.kind = "absent"
    /\ \E i \in DOMAIN requests :
          Owns(requests[i], user[last.s]) /\ requests[i]["status"] = "Pending"

\* C9: a Submit Request appends one record per staged item, in cart order
\* and owned by the submitting user, after the previously persisted
\* requests, which stay as they were, and empties the cart.
C9_SubmitAppends ==
    [][last'.op = "Submit" =>
         LET s == last'.s
             n == Len(cart[s])
             m == Len(requests)
         IN  /\ n > 0
             /\ Len(requests') = m + n
             /\ SubSeq(requests', 1, m) = requests
             /\ \A i \in 1..n :
                   /\ requests'[m + i]["id"] = cart[s][i]["id"]
                   /\ requests'[m + i]["ps_number"] = user[s]["ps_number"]
                   /\ \A k \in AllowedFields : requests'[m + i][k] = cart[s][i][k]
             /\ cart'[s] = <<>>]_vars

C9_Witness ==
    /\ last.op = "Submit"
    /\ cart[last.s] = <<>>
    /\ Len(requests) >= 2
    /\ \E i \in DOMAIN requests : Owns(requests[i], user[last.s])
    /\ \E i \in DOMAIN requests : ~Owns(requests[i], user[last.s])

\* C10: no step changes the owner of a persisted request or gives a
\* persisted request another id: a record that carries a persisted id keeps
\* that id's owner, no id gets more records, and a new id is the id of an
\* item submitted in the step.
C10_IdOwnerStable ==
    [][/\ \A i \in DOMAIN requests, j \in DOMAIN requests' :
            requests'[j]["id"] = requests[i]["id"]
               => requests'[j]["ps_number"] = requests[i]["ps_number"]
       /\ \A i \in DOMAIN requests :
            Cardinality({j \in DOMAIN requests' : requests'[j]["id"] = requests[i]["id"]})
               <= Cardinality({k \in DOMAIN requests : requests[k]["id"] = requests[i]["id"]})
       /\ IdsOf(requests') \subseteq
            IdsOf(requests) \cup
               (IF last'.op = "Submit" THEN IdsOf(cart[last'.s]) ELSE {})]_vars

C10_Witness ==
    /\ last.op = "SaveChanges"
    /\ \E i \in DOMAIN requests : requests[i]["status"] = "Approved"
    /\ \E i \in DOMAIN requests : requests[i]["status"] = "Pending"

\* C6: a sign-in yields a user exactly when a users.json record has the id
\* and the password, and then the user has a role stored in such a record
\* (Coach when the first such record stores none), or when no users.json
\* record matches, a coaches.json record has the id and the password is the
\* id, and then the role is Coach; and it changes no file.
C6_Authenticate ==
    [][last'.op = "Login" =>
         LET s == last'.s
             ps == last'.ps
             pw == last'.pw
             inUsers == {i \in DOMAIN users :
                           /\ "ps_number" \in DOMAIN users[i]
                           /\ "password" \in DOMAIN users[i]
                           /\ users[i]["ps_number"] = ps
                           /\ users[i]["password"] = pw}
             inCoaches == {i \in DOMAIN coaches :
                             /\ "ps_number" \in DOMAIN coaches[i]
                             /\ coaches[i]["ps_number"] = ps}
         IN  /\ (user'[s] # NoUser) <=> (inUsers # {} \/ (inCoaches # {} /\ pw = ps))
             /\ inUsers # {} =>
                   /\ user'[s]["ps_number"] = ps
                   /\ user'[s]["credential"] \in
                         {IF "credential" \in DOMAIN users[i]
                          THEN users[i]["credential"] ELSE "Coach" : i \in inUsers}
             /\ (inUsers = {} /\ inCoaches # {} /\ pw = ps) =>
                   /\ user'[s]["ps_number"] = ps
                   /\ user'[s]["credential"] = "Coach"
             /\ users' = users /\ coaches' = coaches /\ requests' = requests]_vars

C6_Witness ==
    /\ last.op = "Login"
    /\ user[last.s] # NoUser
    /\ user[last.s]["credential"] = "Admin"
    /\ \E i \in DOMAIN coaches :
          coaches[i]["ps_number"] = last.ps /\ last.pw = last.ps

\* the rows a load returns have an id, a status and an owner; a row that
\* lacked one has a fresh id, status Pending, owner "unknown"
BackfillDefaults(before, returned) ==
    /\ Len(returned) = Len(before)
    /\ \A i \in DOMAIN before :
          /\ {"id", "status", "ps_number"} \subseteq DOMAIN returned[i]
          /\ "status" \notin DOMAIN before[i] => returned[i]["status"] = "Pending"
          /\ "ps_number" \notin DOMAIN before[i] => returned[i]["ps_number"] = "unknown"
          /\ "id" \notin DOMAIN before[i] =>
                \A j \in DOMAIN returned : j # i => returned[j]["id"] # returned[i]["id"]

\* C5: a load backfills the missing ids, statuses and owners, the persisted
\* collection then equals what the load returned, and a second load returns
\* the same records and leaves the persisted collection as it is.
C5_BackfillPersisted ==
    [][last'.op = "ManageLoad" =>
         LET returned == rows'[last'.s]
             again == ensure_request_id_and_defaults(requests', LoadJson(requests'), nextId')
         IN  /\ BackfillDefaults(requests, returned)
             /\ requests' = returned
             /\ again.rows = returned
             /\ again.file = requests']_vars

IsRewrite(l) == l.op \in {"EndSubmit", "EndDelete", "EndSave"}

\* C8: a rewrite puts in the file the array its session built from its own
\* load: every persisted id afterwards is an id of that load or of the
\* session's cart, a Submit's array starts with the loaded rows, and a
\* record another session persisted after that load is gone.
C8_LastWriteWins ==
    [][IsRewrite(last') =>
         LET s == last'.s
         IN  /\ IdsOf(requests') \subseteq IdsOf(rows[s]) \cup IdsOf(cart[s])
             /\ last'.op = "EndSubmit" =>
                   SubSeq(requests', 1, Len(rows[s])) = rows[s]
             /\ \A i \in DOMAIN requests :
                   requests[i]["id"] \notin IdsOf(rows[s])
                      => requests[i]["id"] \notin IdsOf(requests')]_vars

C8_Witness ==
    /\ last.op = "EndSubmit"
    /\ last.kind = "lost"
    /\ \A s \in Sessions : pc[s] = "idle" /\ cart[s] = <<>>
    /\ Len(requests) = 1
    /\ nextId > 2

====
